---- MODULE Spec2Model ----
(***************************************************************************)
(* Model of app.py: the /generate handler (generate_cv), the cleanup       *)
(* filter (clean_ai_output) and the two renderers (create_docx,            *)
(* create_pdf).  Text is a sequence of one-character strings; the regular  *)
(* expressions and str methods are computed character by character.        *)
(***************************************************************************)
EXTENDS Integers, Sequences, FiniteSets, TLC

VARIABLES
    pc,        \* position of the operation in progress
    req,       \* JSON body of the /generate request (field -> JSON value)
    calls,     \* invocations of client.chat.completions.create in this request
    updated_cv,\* generate_cv's updated_cv: the cleaned upstream text
    rendered,  \* sequence of renderers run in this request
    resp,      \* the HTTP response of the request
    upstream, \* outcome of the external call of this request
    text,      \* input text of the pure-function specifications
    name,      \* input target_name of the renderer specification
    out1,      \* clean_ai_output(text)
    out2,      \* clean_ai_output(clean_ai_output(text))
    docx,      \* document built by create_docx(text, name)
    pdf        \* story built by create_pdf(text, name)

vars == <<pc, req, calls, updated_cv, rendered, resp, upstream,
          text, name, out1, out2, docx, pdf>>

----------------------------------------------------------------------------
(* Characters and the str methods the code uses *)

UpperCase == <<"A","B","C","D","E","F","G","H","I","J","K","L","M",
               "N","O","P","Q","R","S","T","U","V","W","X","Y","Z">>
LowerCase == <<"a","b","c","d","e","f","g","h","i","j","k","l","m",
               "n","o","p","q","r","s","t","u","v","w","x","y","z">>

IsUpper(c) == \E k \in 1..26 : UpperCase[k] = c
IsLower(c) == \E k \in 1..26 : LowerCase[k] = c
IsLetter(c) == IsUpper(c) \/ IsLower(c)
ToLower(c) == IF IsUpper(c) THEN LowerCase[CHOOSE k \in 1..26 : UpperCase[k] = c] ELSE c
ToUpper(c) == IF IsLower(c) THEN UpperCase[CHOOSE k \in 1..26 : LowerCase[k] = c] ELSE c

\* str.isspace for the characters of the model
IsSpace(c) == c \in {" ", "\n", "\t", "\r"}

MinOf(S) == CHOOSE x \in S : \A y \in S : x <= y
MaxOf(S) == CHOOSE x \in S : \A y \in S : y <= x

\* str.lower
StrLower(s) == [i \in 1..Len(s) |-> ToLower(s[i])]

\* str.strip(): leading and trailing whitespace removed
Strip(s) ==
    LET idx == {i \in 1..Len(s) : ~IsSpace(s[i])}
    IN  IF idx = {} THEN <<>> ELSE SubSeq(s, MinOf(idx), MaxOf(idx))

\* str.title(): a letter is upper-cased after a non-letter, lower-cased after a letter
StrTitle(s) ==
    [i \in 1..Len(s) |->
        IF ~IsLetter(s[i]) THEN s[i]
        ELSE IF i = 1 \/ ~IsLetter(s[i-1]) THEN ToUpper(s[i]) ELSE ToLower(s[i])]

\* str.replace(a, b) for single characters
ReplaceChar(s, a, b) == [i \in 1..Len(s) |-> IF s[i] = a THEN b ELSE s[i]]

\* str.split(c)
RECURSIVE SplitChar(_, _)
SplitChar(s, c) ==
    LET idx == {i \in 1..Len(s) : s[i] = c}
    IN  IF idx = {} THEN <<s>>
        ELSE LET i == MinOf(idx)
             IN  <<SubSeq(s, 1, i-1)>> \o SplitChar(SubSeq(s, i+1, Len(s)), c)

\* str.splitlines(): like split("\n"), but no empty last line and [] for ""
SplitLines(s) ==
    IF s = <<>> THEN <<>>
    ELSE LET parts == SplitChar(s, "\n")
         IN  IF parts[Len(parts)] = <<>> THEN SubSeq(parts, 1, Len(parts)-1) ELSE parts

\* sep.join(parts)
RECURSIVE JoinWith(_, _)
JoinWith(parts, sep) ==
    IF parts = <<>> THEN <<>>
    ELSE IF Len(parts) = 1 THEN parts[1]
    ELSE parts[1] \o sep \o JoinWith(Tail(parts), sep)

\* s[i:] starts with w  (i is 1-based)
StartsWithAt(s, i, w) ==
    /\ i + Len(w) - 1 <= Len(s)
    /\ \A k \in 1..Len(w) : s[i+k-1] = w[k]

----------------------------------------------------------------------------
(* clean_ai_output *)

Tailored == <<"t","a","i","l","o","r","e","d">>
Cv == <<"c","v">>
Resume == <<"r","e","s","u","m","e">>

\* Length of the match of (?i)tailored\s*(cv|resume) at position i, 0 if none.
\* \s* is greedy; neither alternative starts with whitespace, so the only
\* candidate is the maximal whitespace run.
PhraseLenAt(s, i) ==
    LET low == StrLower(s)
        j0 == i + Len(Tailored)
        nonws == {j \in j0..Len(s) : ~IsSpace(s[j])}
        j == IF nonws = {} THEN Len(s) + 1 ELSE MinOf(nonws)
    IN  IF ~StartsWithAt(low, i, Tailored) THEN 0
        ELSE IF StartsWithAt(low, j, Cv) THEN j + Len(Cv) - i
        ELSE IF StartsWithAt(low, j, Resume) THEN j + Len(Resume) - i
        ELSE 0

\* re.sub(r"(?i)tailored\s*(cv|resume)", "", s): leftmost matches, left to right
RECURSIVE RemovePhrasesFrom(_, _)
RemovePhrasesFrom(s, i) ==
    IF i > Len(s) THEN <<>>
    ELSE LET n == PhraseLenAt(s, i)
         IN  IF n > 0 THEN RemovePhrasesFrom(s, i + n)
             ELSE <<s[i]>> \o RemovePhrasesFrom(s, i + 1)

RemovePhrases(s) == RemovePhrasesFrom(s, 1)

IsRuleChar(c) == c \in {"-", "_", "="}

\* Length of the maximal run of [-_=] starting at i
RunLenAt(s, i) ==
    LET stop == {j \in i..Len(s) : ~IsRuleChar(s[j])}
    IN  (IF stop = {} THEN Len(s) + 1 ELSE MinOf(stop)) - i

\* re.sub(r"[-_=]{2,}", "", s)
RECURSIVE RemoveRulesFrom(_, _)
RemoveRulesFrom(s, i) ==
    IF i > Len(s) THEN <<>>
    ELSE LET n == RunLenAt(s, i)
         IN  IF n >= 2 THEN RemoveRulesFrom(s, i + n)
             ELSE <<s[i]>> \o RemoveRulesFrom(s, i + 1)

RemoveRules(s) == RemoveRulesFrom(s, 1)

clean_ai_output(s) == Strip(RemoveRules(RemovePhrases(s)))

----------------------------------------------------------------------------
(* Section labels: the alternation of the regular expressions of            *)
(* create_docx and create_pdf                                               *)

Summary == <<"S","u","m","m","a","r","y">>
KeySkills == <<"K","e","y"," ","S","k","i","l","l","s">>
ProfessionalExperience ==
    <<"P","r","o","f","e","s","s","i","o","n","a","l"," ",
      "E","x","p","e","r","i","e","n","c","e">>
Education == <<"E","d","u","c","a","t","i","o","n">>
Certifications == <<"C","e","r","t","i","f","i","c","a","t","i","o","n","s">>
AdditionalInformation ==
    <<"A","d","d","i","t","i","o","n","a","l"," ",
      "I","n","f","o","r","m","a","t","i","o","n">>

DocxLabels == {Summary, KeySkills, ProfessionalExperience, Education,
               Certifications, AdditionalInformation}
PdfLabels == {Summary, KeySkills, ProfessionalExperience, Education,
              Certifications, AdditionalInformation}

\* Document elements
Heading(t) == [kind |-> "heading", text |-> t]
Para(t) == [kind |-> "para", text |-> t]
Spacer12 == [kind |-> "spacer12", text |-> <<>>]
Spacer6 == [kind |-> "spacer6", text |-> <<>>]

\* target_name.strip().title().replace("_", " ") followed by " CV"
TitleText(target_name) ==
    ReplaceChar(StrTitle(Strip(target_name)), "_", " ") \o <<" ", "C", "V">>

----------------------------------------------------------------------------
(* create_docx *)

\* the lookahead (?=Summary|Key Skills|...) matches at position i
DocxLabelAt(s, i) == \E w \in DocxLabels : StartsWithAt(s, i, w)

\* re.split on the zero-width lookahead: a cut before every label occurrence,
\* the (possibly empty) text before the first cut included
RECURSIVE SectionsFrom(_, _)
SectionsFrom(s, start) ==
    LET cuts == {i \in (start+1)..Len(s) : DocxLabelAt(s, i)}
    IN  IF cuts = {} THEN <<SubSeq(s, start, Len(s))>>
        ELSE LET c == MinOf(cuts)
             IN  <<SubSeq(s, start, c-1)>> \o SectionsFrom(s, c)

SplitSections(s) ==
    IF s # <<>> /\ DocxLabelAt(s, 1) THEN <<(<<>>)>> \o SectionsFrom(s, 1)
    ELSE SectionsFrom(s, 1)

\* the paragraphs of a section's content: the non-blank lines, stripped
RECURSIVE ContentParas(_)
ContentParas(lines) ==
    IF lines = <<>> THEN <<>>
    ELSE (IF Strip(lines[1]) # <<>> THEN <<Para(Strip(lines[1]))>> ELSE <<>>)
         \o ContentParas(Tail(lines))

\* a loop body whose content starts one line too late
DocxSectionOffByOne(section) ==
    LET lines == SplitLines(Strip(section))
    IN  IF lines = <<>> THEN <<>>
        ELSE LET heading == Strip(lines[1])
                 content == Strip(JoinWith(Tail(Tail(lines)), <<"\n">>))
             IN  <<Heading(heading)>> \o
                 (IF Len(lines) < 2 THEN <<>> ELSE ContentParas(SplitChar(content, "\n")))

\* the body of the loop over sections: heading from the first line, one
\* paragraph per non-blank line of the rest; nothing for a blank section
DocxSection(section) ==
    LET lines == SplitLines(Strip(section))
    IN  IF lines = <<>> THEN <<>>
        ELSE LET heading == Strip(lines[1])
                 content == Strip(JoinWith(Tail(lines), <<"\n">>))
             IN  <<Heading(heading)>> \o ContentParas(SplitChar(content, "\n"))

\* the (heading, content) pair the loop computes for a non-blank section
DocxPair(section) ==
    LET lines == SplitLines(Strip(section))
    IN  IF lines = <<>> THEN <<>>
        ELSE <<[heading |-> Strip(lines[1]),
                content |-> Strip(JoinWith(Tail(lines), <<"\n">>))]>>

RECURSIVE DocxPairs(_)
DocxPairs(sections) ==
    IF sections = <<>> THEN <<>>
    ELSE DocxPair(sections[1]) \o DocxPairs(Tail(sections))

RECURSIVE DocxBody(_)
DocxBody(sections) ==
    IF sections = <<>> THEN <<>>
    ELSE DocxSection(sections[1]) \o DocxBody(Tail(sections))

create_docx(cv_text, target_name) ==
    [done |-> TRUE,
     title |-> TitleText(target_name),
     after_title |-> Para(<<>>),
     sections |-> DocxPairs(SplitSections(cv_text)),
     body |-> DocxBody(SplitSections(cv_text))]

----------------------------------------------------------------------------
(* create_pdf *)

\* re.match(r"^(Summary|Key Skills|...)", line.strip())
PdfIsHeading(line) == \E w \in PdfLabels : StartsWithAt(Strip(line), 1, w)

PdfLine(line) ==
    IF PdfIsHeading(line) THEN <<Spacer12, Heading(Strip(line))>>
    ELSE IF Strip(line) # <<>> THEN <<Para(Strip(line))>>
    ELSE <<Spacer6>>

RECURSIVE PdfStory(_)
PdfStory(lines) ==
    IF lines = <<>> THEN <<>>
    ELSE PdfLine(lines[1]) \o PdfStory(Tail(lines))

create_pdf(cv_text, target_name) ==
    [done |-> TRUE,
     title |-> TitleText(target_name),
     after_title |-> Spacer12,
     sections |-> <<>>,
     body |-> PdfStory(SplitChar(cv_text, "\n"))]

NoDoc == [done |-> FALSE, title |-> <<>>, after_title |-> Spacer6,
          sections |-> <<>>, body |-> <<>>]

----------------------------------------------------------------------------
(* Bounded inputs of the pure functions *)

MaxCleanPieces == 4
MaxRenderPieces == 4
MaxUpstreamPieces == 2

\* every concatenation of at most n pieces
RECURSIVE TextsUpTo(_, _)
TextsUpTo(pieces, n) ==
    IF n = 0 THEN {<<>>}
    ELSE LET shorter == TextsUpTo(pieces, n-1)
         IN  shorter \cup {p \o t : p \in pieces, t \in shorter}

CleanPieces == {<<"T">> \o Tail(Tailored), Cv, Resume, <<" ">>, <<"\n">>,
                <<"-">>, <<"_">>, <<"x">>, Summary}
RenderPieces == {Summary, Education, <<"x">>, <<" ">>, <<"\n">>, <<":">>}
RenderNames == {<<"q","a","_","l","e","a","d">>, <<" ","D","e","v"," ">>}

CleanTexts == TextsUpTo(CleanPieces, MaxCleanPieces)
RenderTexts == TextsUpTo(RenderPieces, MaxRenderPieces)

NoReq == [json |-> "none"]
NoResp == [status |-> 0, kind |-> "none", error |-> "", filename |-> <<>>,
           mimetype |-> "", doc |-> NoDoc]

HandlerIdle ==
    /\ req = NoReq /\ calls = 0 /\ updated_cv = <<>> /\ rendered = <<>>
    /\ resp = NoResp /\ upstream = "none"

HandlerVars == <<req, calls, updated_cv, rendered, resp, upstream>>

----------------------------------------------------------------------------
(* Specification of clean_ai_output applied once and twice *)

InitClean ==
    /\ pc = "clean"
    /\ text \in CleanTexts
    /\ name = <<>> /\ out1 = <<>> /\ out2 = <<>>
    /\ docx = NoDoc /\ pdf = NoDoc
    /\ HandlerIdle

CleanOnce ==
    /\ pc = "clean"
    /\ out1' = clean_ai_output(text)
    /\ pc' = "cleaned"
    /\ UNCHANGED <<text, name, out2, docx, pdf, HandlerVars>>

CleanAgain ==
    /\ pc = "cleaned"
    /\ out2' = clean_ai_output(out1)
    /\ pc' = "recleaned"
    /\ UNCHANGED <<text, name, out1, docx, pdf, HandlerVars>>

NextClean == CleanOnce \/ CleanAgain

SpecClean == InitClean /\ [][NextClean]_vars

----------------------------------------------------------------------------
(* Specification of the two renderers applied to the same text and name *)

InitRender ==
    /\ pc = "render"
    /\ text \in RenderTexts
    /\ name \in RenderNames
    /\ out1 = <<>> /\ out2 = <<>>
    /\ docx = NoDoc /\ pdf = NoDoc
    /\ HandlerIdle

RenderDocx ==
    /\ pc = "render" /\ ~docx.done
    /\ docx' = create_docx(text, name)
    /\ UNCHANGED <<pc, text, name, out1, out2, pdf, HandlerVars>>

RenderPdf ==
    /\ pc = "render" /\ ~pdf.done
    /\ pdf' = create_pdf(text, name)
    /\ UNCHANGED <<pc, text, name, out1, out2, docx, HandlerVars>>

NextRender == RenderDocx \/ RenderPdf

SpecRender == InitRender /\ [][NextRender]_vars

----------------------------------------------------------------------------
(* generate_cv: the /generate handler *)

\* JSON values of a body field: missing key, null, a non-string value that
\* is true in a boolean context (a number such as 5), or a string
Absent == [t |-> "absent", s |-> <<>>]
Null == [t |-> "null", s |-> <<>>]
Num == [t |-> "num", s |-> <<>>]
Str(chars) == [t |-> "str", s |-> chars]

OldCvValues == {Absent, Null, Num, Str(<<>>), Str(<<" ">>), Str(<<"c","v"," ">>)}
JobDescValues == {Absent, Null, Num, Str(<<>>), Str(<<"\n">>), Str(<<"d","e","v">>)}
TargetNameValues == {Absent, Null, Num, Str(<<>>), Str(<<" ">>),
                     Str(<<"q","a","_","l","e","a","d">>),
                     Str(<<" ","d","a","t","a"," ","e","N","G"," ">>)}
FileFormatValues == {Absent, Null, Num, Str(<<>>), Str(<<"p","d","f">>),
                     Str(<<"P","D","F">>), Str(<<"d","o","c","x">>),
                     Str(<<"t","x","t">>)}

\* the request bodies: a JSON object with the four fields, or a body that
\* get_json rejects or that is no object
Requests ==
    {[json |-> "object", old_cv |-> o, job_desc |-> j, target_name |-> n, file_format |-> f] :
        o \in OldCvValues, j \in JobDescValues, n \in TargetNameValues, f \in FileFormatValues}
    \cup {[json |-> "other", old_cv |-> Absent, job_desc |-> Absent,
           target_name |-> Absent, file_format |-> Absent]}

UpstreamPieces == {Summary, <<"\n">>, <<"x">>, <<"-","-">>,
                   Tailored \o <<" ">> \o Cv}
UpstreamTexts == TextsUpTo(UpstreamPieces, MaxUpstreamPieces)

Docx == <<"d","o","c","x">>
Pdf == <<"p","d","f">>
DocxMime == "application/vnd.openxmlformats-officedocument.wordprocessingml.document"
PdfMime == "application/pdf"

\* data.get(key, "").strip(): a string is stripped, a missing key gives "",
\* null or a number has no strip() and raises
GetStripped(v) ==
    IF v.t = "absent" THEN [raised |-> FALSE, s |-> <<>>]
    ELSE IF v.t = "str" THEN [raised |-> FALSE, s |-> Strip(v.s)]
    ELSE [raised |-> TRUE, s |-> <<>>]

\* (data.get(key) or default): the default replaces a missing key, null and ""
GetOr(v, default) ==
    IF v.t \in {"absent", "null"} \/ (v.t = "str" /\ v.s = <<>>) THEN Str(default) ELSE v

\* lines 112-116: the four locals, or an exception
ParseFields(r) ==
    LET o == GetStripped(r.old_cv)
        j == GetStripped(r.job_desc)
        n == GetOr(r.target_name, <<>>)
        f == GetOr(r.file_format, Docx)
    IN  [raised |-> r.json # "object" \/ o.raised \/ j.raised \/ n.t # "str" \/ f.t # "str",
         old_cv |-> o.s,
         job_desc |-> j.s,
         target_name |-> IF n.t = "str" THEN Strip(n.s) ELSE <<>>,
         file_format |-> IF f.t = "str" THEN StrLower(f.s) ELSE <<>>]

\* line 118: if not old_cv or not job_desc or not target_name
MissingField(p) == p.old_cv = <<>> \/ p.job_desc = <<>> \/ p.target_name = <<>>

\* a validation that forgets target_name
ValidateOutcomeNoName(r) ==
    LET p == ParseFields(r)
    IN  IF p.raised THEN "exception"
        ELSE IF p.old_cv = <<>> \/ p.job_desc = <<>> THEN "missing"
        ELSE "ok"

\* lines 111-119 and 187-189: where the handler goes after reading the body
ValidateOutcome(r) ==
    LET p == ParseFields(r)
    IN  IF p.raised THEN "exception"
        ELSE IF MissingField(p) THEN "missing"
        ELSE "ok"

ErrorResp(status, error) ==
    [status |-> status, kind |-> "error", error |-> error, filename |-> <<>>,
     mimetype |-> "", doc |-> NoDoc]

\* lines 173-174: clean_name and filename
CleanName(p) == StrTitle(Strip(p.target_name))
FileName(p) == ReplaceChar(CleanName(p), " ", "_") \o <<".">> \o p.file_format

\* line 176: which renderer runs
Renderer(p) == IF p.file_format = Pdf THEN "pdf" ELSE "docx"

\* lines 176-185: the file response
FileResp(p, cv) ==
    [status |-> 200, kind |-> "file", error |-> "", filename |-> FileName(p),
     mimetype |-> IF Renderer(p) = "pdf" THEN PdfMime ELSE DocxMime,
     doc |-> IF Renderer(p) = "pdf" THEN create_pdf(cv, CleanName(p))
             ELSE create_docx(cv, CleanName(p))]

\* a handler that calls again after a failed call
AfterCallRetry(outcome) == IF outcome = "text" THEN "render" ELSE "call"

\* lines 164-170 and 187-189: where the handler goes after the external call.
\* Outcomes: the call raises, the response has no usable content
\* (choices empty or content None), or it carries a text
AfterCall(outcome) == IF outcome = "text" THEN "render" ELSE "done"

Init ==
    /\ pc = "idle"
    /\ HandlerIdle
    /\ text = <<>> /\ name = <<>> /\ out1 = <<>> /\ out2 = <<>>
    /\ docx = NoDoc /\ pdf = NoDoc

PureVars == <<text, name, out1, out2, docx, pdf>>

\* a request arrives
Receive ==
    /\ pc = "idle"
    /\ \E r \in Requests : req' = r
    /\ pc' = "validate"
    /\ UNCHANGED <<calls, updated_cv, rendered, resp, upstream, PureVars>>

\* lines 111-119: read the body, validate
Validate ==
    /\ pc = "validate"
    /\ LET v == ValidateOutcome(req)
       IN  /\ pc' = IF v = "ok" THEN "call" ELSE "done"
           /\ resp' = IF v = "exception" THEN ErrorResp(500, "exception")
                      ELSE IF v = "missing" THEN ErrorResp(400, "missing_fields")
                      ELSE resp
    /\ UNCHANGED <<req, calls, updated_cv, rendered, upstream, PureVars>>

\* lines 164-170: the one external call and the cleanup of its text
CallUpstream ==
    /\ pc = "call"
    /\ calls' = calls + 1
    /\ \E outcome \in {"raises", "unusable", "text"} :
         /\ upstream' = outcome
         /\ pc' = AfterCall(outcome)
         /\ IF outcome = "text"
            THEN /\ \E t \in UpstreamTexts : updated_cv' = clean_ai_output(Strip(t))
                 /\ resp' = resp
            ELSE /\ updated_cv' = updated_cv
                 /\ resp' = ErrorResp(500, "exception")
    /\ UNCHANGED <<req, rendered, PureVars>>

\* lines 173-189: render and send the file; a renderer that raises ends the
\* request with the 500 response
Render ==
    /\ pc = "render"
    /\ LET p == ParseFields(req)
       IN  /\ rendered' = Append(rendered, Renderer(p))
           /\ \E ok \in BOOLEAN :
                resp' = IF ok THEN FileResp(p, updated_cv)
                        ELSE ErrorResp(500, "exception")
    /\ pc' = "done"
    /\ UNCHANGED <<req, calls, updated_cv, upstream, PureVars>>

\* the response is sent; the locals of the request are discarded
Return ==
    /\ pc = "done"
    /\ req' = NoReq /\ calls' = 0 /\ updated_cv' = <<>> /\ rendered' = <<>>
    /\ resp' = NoResp /\ upstream' = "none"
    /\ pc' = "idle"
    /\ UNCHANGED PureVars

Next == Receive \/ Validate \/ CallUpstream \/ Render \/ Return

Spec == Init /\ [][Next]_vars

----------------------------------------------------------------------------
(* Properties of the handler, checked under Spec *)

\* a field that is a text, empty after trimming
EmptyText(v) == v.t = "str" /\ Strip(v.s) = <<>>
\* a field that is a text, not empty after trimming
FilledText(v) == v.t = "str" /\ Strip(v.s) # <<>>
\* no target name supplied: absent, null or blank
NameMissing(v) == v.t \in {"absent", "null"} \/ EmptyText(v)

InRequest == pc \in {"validate", "call", "render", "done"}

\* the part of a filename after its last "."
Ext(fn) ==
    LET dots == {i \in 1..Len(fn) : fn[i] = "."}
    IN  IF dots = {} THEN <<>> ELSE SubSeq(fn, MaxOf(dots) + 1, Len(fn))
\* the part of a filename before its last "."
Stem(fn) ==
    LET dots == {i \in 1..Len(fn) : fn[i] = "."}
    IN  IF dots = {} THEN fn ELSE SubSeq(fn, 1, MaxOf(dots) - 1)

\* C1: a request whose old_cv or job_desc text is empty after trimming never
\* reaches the external call and ends with the 400 InvalidInput error.
C1_EmptyTextIsInvalidInput ==
    (InRequest /\ req.json = "object"
        /\ (EmptyText(req.old_cv) \/ EmptyText(req.job_desc)))
    => /\ calls = 0
       /\ pc \notin {"call", "render"}
       /\ pc = "done" => resp = ErrorResp(400, "missing_fields")

\* C2: when the external call fails after validation passed, the request
\* ends with the 500 error, the call was made exactly once, no renderer ran
\* and no document is returned; every finished request holds either a
\* complete file or a structured error, and the call is never made twice.
C2_UpstreamFailureIsOneError ==
    /\ calls <= 1
    /\ (pc = "done" /\ upstream \in {"raises", "unusable"})
       => /\ resp = ErrorResp(500, "exception")
          /\ calls = 1
          /\ rendered = <<>>
    /\ pc = "done"
       => \/ /\ resp.kind = "file" /\ resp.status = 200
             /\ resp.doc.done /\ Len(rendered) = 1 /\ calls = 1
          \/ /\ resp.kind = "error" /\ resp.status \in {400, 500}
             /\ resp.error # "" /\ resp.doc = NoDoc

C2_Witness ==
    /\ pc = "done" /\ ValidateOutcome(req) = "ok"
    /\ upstream = "raises" /\ calls = 1 /\ resp.status = 500

\* C3: a successful request returns a filename whose extension is docx or
\* pdf, an unrecognized or absent file_format counting as docx, and the
\* extension, the MIME type and the renderer that ran agree.
C3_FormatResolvedAndConsistent ==
    (pc = "done" /\ resp.kind = "file")
    => LET ext == Ext(resp.filename)
       IN  /\ ext \in {Docx, Pdf}
           /\ ext = Pdf => (resp.mimetype = PdfMime /\ rendered = <<"pdf">>)
           /\ ext = Docx => (resp.mimetype = DocxMime /\ rendered = <<"docx">>)
           /\ (req.file_format.t # "str"
                \/ StrLower(req.file_format.s) \notin {Docx, Pdf}) => ext = Docx

DefaultStem == <<"U","p","d","a","t","e","d","_","C","V">>

----------------------------------------------------------------------------
(* Properties of the renderers, checked under SpecRender *)

\* the characters of s that are not whitespace
NonWs(s) == SelectSeq(s, LAMBDA c : ~IsSpace(c))

\* the texts of a sequence of elements, concatenated in order
RECURSIVE ConcatTexts(_)
ConcatTexts(elems) ==
    IF elems = <<>> THEN <<>> ELSE elems[1].text \o ConcatTexts(Tail(elems))

IsHeading(e) == e.kind = "heading"
IsPara(e) == e.kind = "para"
\* the headings and body paragraphs of a document, in order
HeadingsAndParas(elems) == SelectSeq(elems, LAMBDA e : IsHeading(e) \/ IsPara(e))
Headings(elems) == SelectSeq(elems, IsHeading)

\* the six recognized labels
Labels == {Summary, KeySkills, ProfessionalExperience, Education,
           Certifications, AdditionalInformation}
LabelAt(s, i) == \E w \in Labels : StartsWithAt(s, i, w)
LabelPositions(s) == {i \in 1..Len(s) : LabelAt(s, i)}
StartsWithLabel(s) == LabelAt(s, 1)

\* the text before the first label occurrence
Preamble(s) ==
    IF LabelPositions(s) = {} THEN s ELSE SubSeq(s, 1, MinOf(LabelPositions(s)) - 1)

\* C5: the headings and paragraphs create_docx emits, concatenated in order,
\* are the input text without its whitespace, and every label occurrence has
\* a heading of its own (repeated labels are not merged).
C5_SplitterComplete ==
    docx.done
    => /\ NonWs(ConcatTexts(docx.body)) = NonWs(text)
       /\ Len(Headings(docx.body))
            = Cardinality(LabelPositions(text))
              + (IF Strip(Preamble(text)) = <<>> THEN 0 ELSE 1)

\* a text with a repeated label, the second occurrence mid-line, and a body
C5_Witness ==
    /\ docx.done
    /\ text = Summary \o Summary \o <<"\n", "x">>
    /\ docx.body = <<Heading(Summary), Heading(Summary), Para(<<"x">>)>>

\* C6: for a non-blank text without any label, create_docx makes one
\* section, uses no line of the text as a heading, and the section's body
\* is the whole trimmed text.
C6_NoMatchFallback ==
    (docx.done /\ LabelPositions(text) = {} /\ Strip(text) # <<>>)
    => /\ Len(docx.sections) = 1
       /\ Headings(docx.body) = <<>>
       /\ docx.sections[1].content = Strip(text)

\* a line that is a label followed only by whitespace or colons
AnchoredLine(line) ==
    LET t == Strip(line)
    IN  \E w \in Labels :
          /\ StartsWithAt(t, 1, w)
          /\ \A k \in (Len(w)+1)..Len(t) : IsSpace(t[k]) \/ t[k] = ":"

\* the lines of s that are anchored label lines
AnchoredLines(s) == SelectSeq(SplitChar(s, "\n"), AnchoredLine)

\* C8: only an anchored label line becomes a heading: every heading of the
\* PDF story is one, every docx heading that begins with a label is one, and
\* the docx document has no more label headings than the text has anchored
\* label lines.
C8_AnchoredHeadings ==
    /\ pdf.done => \A k \in 1..Len(pdf.body) :
                     IsHeading(pdf.body[k]) => AnchoredLine(pdf.body[k].text)
    /\ docx.done =>
         LET labelled == SelectSeq(Headings(docx.body),
                                   LAMBDA e : StartsWithLabel(e.text))
         IN  /\ \A k \in 1..Len(labelled) : AnchoredLine(labelled[k].text)
             /\ Len(labelled) <= Len(AnchoredLines(text))

\* C9: both renderers emit the same sequence of headings and paragraphs.
C9_RenderersAgree ==
    (docx.done /\ pdf.done)
    => HeadingsAndParas(docx.body) = HeadingsAndParas(pdf.body)

----------------------------------------------------------------------------
(* Properties of clean_ai_output, checked under SpecClean *)

\* C7: cleaning a cleaned text changes nothing.
C7_CleanIdempotent == pc = "recleaned" => out2 = out1

\* positions of s inside a "tailored cv"/"tailored resume" phrase of s
RECURSIVE PhraseCoverFrom(_, _)
PhraseCoverFrom(s, i) ==
    IF i > Len(s) THEN {}
    ELSE LET n == PhraseLenAt(s, i)
         IN  IF n > 0 THEN (i..(i+n-1)) \cup PhraseCoverFrom(s, i + n)
             ELSE PhraseCoverFrom(s, i + 1)

\* positions of s inside a run of two or more of - _ =
RunCover(s) ==
    {i \in 1..Len(s) :
        /\ IsRuleChar(s[i])
        /\ \/ (i > 1 /\ IsRuleChar(s[i-1]))
           \/ (i < Len(s) /\ IsRuleChar(s[i+1]))}

\* s without the characters at the positions of cover
RECURSIVE DropPositions(_, _, _)
DropPositions(s, i, cover) ==
    IF i > Len(s) THEN <<>>
    ELSE (IF i \in cover THEN <<>> ELSE <<s[i]>>) \o DropPositions(s, i + 1, cover)

\* the text with exactly its artifacts removed
WithoutArtifacts(s) == DropPositions(s, 1, PhraseCoverFrom(s, 1) \cup RunCover(s))

\* the labels of the heading lines of s, in order
RECURSIVE HeadingLabelsOf(_)
HeadingLabelsOf(lines) ==
    IF lines = <<>> THEN <<>>
    ELSE (IF StartsWithLabel(Strip(lines[1]))
          THEN <<CHOOSE w \in Labels : StartsWithAt(Strip(lines[1]), 1, w)>>
          ELSE <<>>) \o HeadingLabelsOf(Tail(lines))
HeadingLabels(s) == HeadingLabelsOf(SplitChar(s, "\n"))

RECURSIVE IsSubseq(_, _)
IsSubseq(a, b) ==
    IF a = <<>> THEN TRUE
    ELSE IF b = <<>> THEN FALSE
    ELSE IF a[1] = b[1] THEN IsSubseq(Tail(a), Tail(b))
    ELSE IsSubseq(a, Tail(b))

\* C10: the cleaned text is the input with exactly its artifacts removed
\* (and trimmed), and every heading line of the input is still a heading
\* line of the output.
C10_CleanFrame ==
    pc = "cleaned"
    => /\ out1 = Strip(WithoutArtifacts(text))
       /\ IsSubseq(HeadingLabels(text), HeadingLabels(out1))

\* the second half of C10 alone
CleanKeepsHeadingLines ==
    pc = "cleaned" => IsSubseq(HeadingLabels(text), HeadingLabels(out1))

====
